---------------------------- MODULE Spec2Model ----------------------------
(***************************************************************************)
(* Model of skewtpy's Wyoming sounding retrieval (src/skewtpy/wyoming.py): *)
(* sounding_exists (the availability probe) and get_wyoming_sounding (the  *)
(* extraction of the <pre> block and the parsing of its lines).            *)
(*                                                                         *)
(* Text is a sequence of tokens.  A token is either one character or a     *)
(* fixed run of characters that no pattern of the program looks inside:    *)
(*   "SP"  " "            "NL"  "\n"          "GT"  ">"                     *)
(*   "D1"  "-"            "D5"  "-----"       "H"   "#"                     *)
(*   "X" "Y"  one non-blank data character each                            *)
(*   "F"   a run of 100 non-blank characters of page text                  *)
(*   "STATION" "Station information"    "OBS" "Observations"               *)
(*   "CANT" "Can't get"                 "NODATA" "No data available"       *)
(*   "OPEN" "<pre"   "OPENU" "<PRE"   "CLOSE" "</pre"   "CLOSEU" "</PRE"   *)
(* len() counts the characters of the tokens (Width).                      *)
(***************************************************************************)
EXTENDS Integers, Sequences, FiniteSets

VARIABLES
    net_ok,      \* whether requests.get / raise_for_status succeed
    body,        \* the text the server answers with (response.text)
    header_idx,  \* the header_idx argument
    pc,          \* position in get_wyoming_sounding
    requests,    \* number of network requests issued so far
    exists,      \* first component returned by sounding_exists
    response,    \* second component: the response text, or None
    match,       \* group(1) of the <pre> search, None when no match / not run
    outcome      \* what the call produced: a table or a raised error

vars == <<net_ok, body, header_idx, pc, requests, exists, response, match, outcome>>

\* ----------------------------------------------------------------- bounds
MaxSegs == 4
MaxLines == 5
MaxHeaderIdx == 1

\* ------------------------------------------------------ program constants
MinBodyLen == 200
MinDashes == 5

\* ------------------------------------------------------------ text basics
None == <<"None">>

Width(c) ==
    CASE c = "D5" -> 5
      [] c = "F" -> 100
      [] c = "STATION" -> 19
      [] c = "OBS" -> 12
      [] c = "CANT" -> 9
      [] c = "NODATA" -> 17
      [] c \in {"OPEN", "OPENU"} -> 4
      [] c \in {"CLOSE", "CLOSEU"} -> 5
      [] OTHER -> 1

RECURSIVE StrLen(_)
StrLen(s) == IF s = <<>> THEN 0 ELSE Width(Head(s)) + StrLen(Tail(s))

IsSpace(c) == c \in {"SP", "NL"}

RECURSIVE LStrip(_)
LStrip(s) ==
    IF s = <<>> THEN s
    ELSE IF IsSpace(Head(s)) THEN LStrip(Tail(s)) ELSE s

RECURSIVE RStrip(_)
RStrip(s) ==
    IF s = <<>> THEN s
    ELSE IF IsSpace(s[Len(s)]) THEN RStrip(SubSeq(s, 1, Len(s) - 1)) ELSE s

\* str.strip()
Strip(s) == RStrip(LStrip(s))

\* sub in s
Contains(sub, s) ==
    \E i \in 1..(Len(s) - Len(sub) + 1) : SubSeq(s, i, i + Len(sub) - 1) = sub

MinOf(S) == CHOOSE x \in S : \A y \in S : x <= y

\* str.splitlines(): pieces between line breaks, no empty piece after a final break
RECURSIVE SplitLines(_)
SplitLines(s) ==
    IF s = <<>> THEN <<>>
    ELSE LET B == {i \in 1..Len(s) : s[i] = "NL"}
         IN IF B = {} THEN <<s>>
            ELSE <<SubSeq(s, 1, MinOf(B) - 1)>>
                 \o SplitLines(SubSeq(s, MinOf(B) + 1, Len(s)))

\* "\n".join(ls)
RECURSIVE Join(_)
Join(ls) ==
    IF ls = <<>> THEN <<>>
    ELSE IF Len(ls) = 1 THEN ls[1]
    ELSE ls[1] \o <<"NL">> \o Join(Tail(ls))

\* str.split(): the maximal runs of non-blank characters
RECURSIVE Split(_)
Split(s) ==
    LET t == LStrip(s)
    IN IF t = <<>> THEN <<>>
       ELSE LET W == {i \in 1..Len(t) : IsSpace(t[i])}
                n == IF W = {} THEN Len(t) + 1 ELSE MinOf(W)
            IN <<SubSeq(t, 1, n - 1)>> \o Split(SubSeq(t, n, Len(t)))

\* -------------------------------------------------------- sounding_exists
HasNoDataMarker(text) ==
    Contains(<<"CANT">>, text) \/ Contains(<<"NODATA">>, text)

TooShortOffByOne(text) == StrLen(Strip(text)) <= MinBodyLen

TooShort(text) == StrLen(Strip(text)) < MinBodyLen

SoundingExistsKeepsBodyOnFailure(ok, text) ==
    IF ~ok THEN [exists |-> FALSE, response |-> text]
    ELSE IF HasNoDataMarker(text) THEN [exists |-> FALSE, response |-> text]
    ELSE IF TooShort(text) THEN [exists |-> FALSE, response |-> text]
    ELSE [exists |-> TRUE, response |-> text]

\* the pair sounding_exists returns; ok = no requests.RequestException raised
SoundingExists(ok, text) ==
    IF ~ok THEN [exists |-> FALSE, response |-> None]
    ELSE IF HasNoDataMarker(text) THEN [exists |-> FALSE, response |-> text]
    ELSE IF TooShort(text) THEN [exists |-> FALSE, response |-> text]
    ELSE [exists |-> TRUE, response |-> text]

\* ------------------------------------------------- re.search of <pre> block
IsOpen(c) == c \in {"OPEN", "OPENU"}
IsClose(c) == c \in {"CLOSE", "CLOSEU"}

\* end of the opening tag that starts at i: [^>]*> stops at the first ">"
TagEnd(s, i) ==
    LET G == {j \in (i + 1)..Len(s) : s[j] = "GT"}
    IN IF G = {} THEN 0 ELSE MinOf(G)

\* start of the first "</pre>" after position j (lazy .*?), 0 when none
CloseAfter(s, j) ==
    LET K == {k \in (j + 1)..(Len(s) - 1) : IsClose(s[k]) /\ s[k + 1] = "GT"}
    IN IF K = {} THEN 0 ELSE MinOf(K)

MatchesAt(s, i) ==
    /\ IsOpen(s[i])
    /\ TagEnd(s, i) # 0
    /\ CloseAfter(s, TagEnd(s, i)) # 0

MaxOf(S) == CHOOSE x \in S : \A y \in S : x >= y

\* a greedy (.*) in place of (.*?): the group runs to the last "</pre>"
ReSearchPreGreedy(text) ==
    LET M == {i \in 1..Len(text) : MatchesAt(text, i)}
    IN IF M = {} THEN None
       ELSE LET i == MinOf(M)
                j == TagEnd(text, i)
                k == MaxOf({c \in (j + 1)..(Len(text) - 1) :
                              IsClose(text[c]) /\ text[c + 1] = "GT"})
            IN SubSeq(text, j + 1, k - 1)

\* re.search(r"<pre[^>]*>(.*?)</pre>", text, DOTALL | IGNORECASE).group(1)
ReSearchPre(text) ==
    LET M == {i \in 1..Len(text) : MatchesAt(text, i)}
    IN IF M = {} THEN None
       ELSE LET i == MinOf(M)
                j == TagEnd(text, i)
                k == CloseAfter(text, j)
            IN SubSeq(text, j + 1, k - 1)

\* ------------------------------------------------------------ line parsing
IsDash(c) == c \in {"D1", "D5"}

\* re.match(r"^\s*-{5,}\s*$", ln)
IsSeparator(ln) ==
    LET t == Strip(ln)
    IN /\ t # <<>>
       /\ \A i \in 1..Len(t) : IsDash(t[i])
       /\ StrLen(t) >= MinDashes

\* any(mk in ln for mk in stop_markers)
HasStopMarker(ln) ==
    \/ Contains(<<"H", "H", "H">>, ln)
    \/ Contains(<<"STATION">>, ln)
    \/ Contains(<<"OBS">>, ln)

HeaderLine(lines, h) == Strip(lines[h + 1])

UnitsLineVerbatim(lines, h) ==
    IF h + 1 < Len(lines) THEN lines[h + 2] ELSE <<>>

UnitsLine(lines, h) ==
    IF h + 1 < Len(lines) THEN Strip(lines[h + 2]) ELSE <<>>

\* data_start, as a 0-based index into lines
DataStart(lines, h) ==
    IF h + 2 < Len(lines) /\ IsSeparator(lines[h + 3]) THEN h + 3 ELSE h + 2

\* lines[data_start:]
Candidates(lines, h) == SubSeq(lines, DataStart(lines, h) + 1, Len(lines))

TruncateInclusive(dl) ==
    LET C == {i \in 1..Len(dl) : HasStopMarker(dl[i])}
    IN IF C = {} THEN dl ELSE SubSeq(dl, 1, MinOf(C))

\* the cut at the first line holding a stop marker
Truncate(dl) ==
    LET C == {i \in 1..Len(dl) : HasStopMarker(dl[i])}
    IN IF C = {} THEN dl ELSE SubSeq(dl, 1, MinOf(C) - 1)

KeepsRow(ln) == Strip(ln) # <<>> /\ ~IsSeparator(ln)

FilterRowsKeepsSeparators(dl) == SelectSeq(dl, LAMBDA ln : Strip(ln) # <<>>)

FilterRows(dl) == SelectSeq(dl, KeepsRow)

DataText(lines, h) == Strip(Join(FilterRows(Truncate(Candidates(lines, h)))))

\* pd.read_fwf(StringIO(text), header=None, names=names): one row per line
\* of the text; a row is represented by its line without the padding
ReadFwf(text, names) ==
    LET ls == SplitLines(text)
    IN [columns |-> names,
        rows |-> [i \in 1..Len(ls) |-> Strip(ls[i])]]

Error(kind) == [kind |-> kind]

\* lines 152-188: the result of parsing the block, a table or a raised error
ParseBlock(pre_block, h) ==
    LET lines == SplitLines(pre_block)
    IN IF ~(h < Len(lines)) THEN Error("IndexError")
       ELSE LET data_text == DataText(lines, h)
            IN IF data_text = <<>> THEN Error("NoDataRows")
               ELSE LET df == ReadFwf(data_text, Split(HeaderLine(lines, h)))
                    IN [kind |-> "table",
                        columns |-> df.columns,
                        rows |-> df.rows,
                        units |-> UnitsLine(lines, h)]

\* ------------------------------------------------------------------ inputs
Segments ==
    { <<"F">>,
      <<"CANT">>,
      <<"NODATA">>,
      <<"SP", "NL">>,
      <<"OPEN", "GT", "X", "NL", "SP", "Y", "SP", "NL", "X", "Y", "NL", "CLOSE", "GT">>,
      <<"OPENU", "SP", "X", "GT", "Y", "NL", "X", "NL", "Y", "Y", "NL", "CLOSEU", "GT">>,
      <<"OPEN", "GT">>,
      <<"CLOSE", "GT">> }

LineKinds ==
    { <<"SP">>,
      <<"SP", "D5", "SP">>,
      <<"D1", "D1", "D1", "D1">>,
      <<"SP", "X", "SP">>,
      <<"X", "STATION">>,
      <<"H", "H", "H">>,
      <<"OBS", "Y">> }

SeqsUpTo(S, n) == UNION {[1..k -> S] : k \in 0..n}

RECURSIVE Flatten(_)
Flatten(ss) == IF ss = <<>> THEN <<>> ELSE Head(ss) \o Flatten(Tail(ss))

RECURSIVE Terminated(_)
Terminated(ls) ==
    IF ls = <<>> THEN <<>> ELSE Head(ls) \o <<"NL">> \o Terminated(Tail(ls))

\* a page long enough to pass the probe, with one block holding the lines
Page(ls) == <<"F", "F", "OPEN", "GT">> \o Terminated(ls) \o <<"CLOSE", "GT">>

Start ==
    /\ pc = "start"
    /\ requests = 0
    /\ exists = FALSE
    /\ response = None
    /\ match = None
    /\ outcome = Error("pending")
    /\ header_idx \in 0..MaxHeaderIdx

\* pages assembled from segments, network up or down
Init ==
    /\ Start
    /\ net_ok \in BOOLEAN
    /\ \E ss \in SeqsUpTo(Segments, MaxSegs) : body = Flatten(ss)

\* pages with one block of arbitrary lines
InitParse ==
    /\ Start
    /\ \/ /\ net_ok = TRUE
          /\ \E ls \in SeqsUpTo(LineKinds, MaxLines) : body = Page(ls)
       \/ /\ net_ok \in BOOLEAN
          /\ body = <<"F", "F", "SP">>

\* ----------------------------------------------------------------- actions
AttemptsWithRetry(ok) == IF ok THEN 1 ELSE 2

\* requests.get calls made by one call of sounding_exists
Attempts(ok) == 1

\* line 138: exists, response = sounding_exists(url)
CallSoundingExists ==
    /\ pc = "start"
    /\ requests' = requests + Attempts(net_ok)
    /\ exists' = SoundingExists(net_ok, body).exists
    /\ response' = SoundingExists(net_ok, body).response
    /\ pc' = "probed"
    /\ UNCHANGED <<net_ok, body, header_idx, match, outcome>>

SkipsExistsCheck == FALSE

\* line 140: if not exists
NotAvailable == ~exists

\* lines 140-141
RaiseNotAvailable ==
    /\ pc = "probed"
    /\ NotAvailable
    /\ outcome' = Error("SoundingNotAvailable")
    /\ pc' = "done"
    /\ UNCHANGED <<net_ok, body, header_idx, requests, exists, response, match>>

\* lines 143-150
SearchPre ==
    /\ pc = "probed"
    /\ ~NotAvailable
    /\ match' = ReSearchPre(response)
    /\ IF match' = None
       THEN outcome' = Error("NoPreBlock") /\ pc' = "done"
       ELSE outcome' = outcome /\ pc' = "matched"
    /\ UNCHANGED <<net_ok, body, header_idx, requests, exists, response>>

\* lines 152-188
ParseLines ==
    /\ pc = "matched"
    /\ outcome' = ParseBlock(match, header_idx)
    /\ pc' = "done"
    /\ UNCHANGED <<net_ok, body, header_idx, requests, exists, response, match>>

\* ------------------------------------------------- vocabulary of the claims
Blank(c) == c = "SP" \/ c = "NL"

NonBlankAt(s) == {i \in 1..Len(s) : ~Blank(s[i])}

\* s without its leading and trailing whitespace
Trimmed(s) ==
    IF NonBlankAt(s) = {} THEN <<>>
    ELSE SubSeq(s, MinOf(NonBlankAt(s)), MaxOf(NonBlankAt(s)))

TrimmedLen(s) == StrLen(Trimmed(s))

MarkerPresent(s) == \E i \in 1..Len(s) : s[i] = "CANT" \/ s[i] = "NODATA"

ArchiveReportsAbsence(s) == MarkerPresent(s) \/ TrimmedLen(s) < 200

OpensAt(s) == {i \in 1..Len(s) : s[i] = "OPEN" \/ s[i] = "OPENU"}

BlankLine(ln) == \A i \in 1..Len(ln) : Blank(ln[i])

\* only whitespace around a run of 5 or more dashes
SeparatorLine(ln) ==
    \E a \in 1..Len(ln) : \E b \in a..Len(ln) :
        /\ \A i \in 1..(a - 1) : Blank(ln[i])
        /\ \A i \in (b + 1)..Len(ln) : Blank(ln[i])
        /\ \A i \in a..b : ln[i] = "D1" \/ ln[i] = "D5"
        /\ StrLen(SubSeq(ln, a, b)) >= 5

StopLine(ln) ==
    \E i \in 1..Len(ln) :
        \/ ln[i] = "STATION"
        \/ ln[i] = "OBS"
        \/ (i + 2 <= Len(ln) /\ ln[i] = "H" /\ ln[i + 1] = "H" /\ ln[i + 2] = "H")

Returned == pc = "done" /\ outcome.kind = "table"

\* the lines of the extracted block
BlockLines == SplitLines(match)

\* where the data of a block lies: first, the 1-based position of the first
\* data line; stops, the stop-marker lines from there on; stop, the first of
\* them or one past the block end; rows, the lines in between that are neither
\* blank nor separators
Layout(ls, h) ==
    LET fd == IF h + 3 <= Len(ls) /\ SeparatorLine(ls[h + 3]) THEN h + 4 ELSE h + 3
        st == {i \in fd..Len(ls) : StopLine(ls[i])}
        fs == IF st = {} THEN Len(ls) + 1 ELSE MinOf(st)
    IN [first |-> fd,
        stops |-> st,
        stop |-> fs,
        rows |-> {i \in fd..(fs - 1) : ~BlankLine(ls[i]) /\ ~SeparatorLine(ls[i])}]

BlockLayout == Layout(BlockLines, header_idx)

\* the k-th smallest element of S
Nth(S, k) == CHOOSE i \in S : Cardinality({j \in S : j <= i}) = k

\* C1: after a successful request the probe answers available exactly when the
\* body holds no "no data" marker and its trimmed length is at least 200, and
\* it hands back the response in every case.
C1_ProbeClassification ==
    (pc # "start" /\ net_ok) =>
        /\ response = body
        /\ exists <=> (~MarkerPresent(body) /\ TrimmedLen(body) >= 200)

C1_Witness ==
    /\ pc = "probed" /\ net_ok /\ ~exists
    /\ MarkerPresent(body) /\ TrimmedLen(body) >= 200

\* C2: an unavailable response ends the call with the 'not available' error
\* with no block search and no parsing done; a body without a <pre> block
\* never ends in the 'no data rows' error, which needs a found block.
C2_FailureOrder ==
    /\ (pc # "start" /\ ~exists) =>
           (match = None /\ outcome.kind \in {"pending", "SoundingNotAvailable"})
    /\ (pc = "done" /\ (~net_ok \/ ArchiveReportsAbsence(body))) =>
           outcome.kind = "SoundingNotAvailable"
    /\ (pc = "done" /\ OpensAt(body) = {}) => outcome.kind # "NoDataRows"
    /\ outcome.kind \in {"NoDataRows", "IndexError", "table"} => match # None

C2_Witness ==
    /\ pc = "done" /\ net_ok
    /\ ArchiveReportsAbsence(body) /\ OpensAt(body) = {}
    /\ outcome.kind = "SoundingNotAvailable"

\* C3: a finished call has returned a table or raised one of the three
\* documented errors.
C3_OnlyDocumentedFailures ==
    pc = "done" =>
        outcome.kind \in {"table", "SoundingNotAvailable", "NoPreBlock", "NoDataRows"}

\* C4: the rows of a returned table are, in order, the lines between the data
\* start and the first stop-marker line that are neither blank nor separators.
C4_RowCount ==
    Returned =>
        LET ls == BlockLines
            L == BlockLayout
        IN /\ Len(outcome.rows) = Cardinality(L.rows)
           /\ \A k \in 1..Len(outcome.rows) :
                  outcome.rows[k] = Trimmed(ls[Nth(L.rows, k)])

C4_Witness ==
    /\ Returned
    /\ Len(outcome.rows) = 2
    /\ LET ls == BlockLines
           L == BlockLayout
       IN \E i \in L.first..(L.stop - 1) :
              /\ SeparatorLine(ls[i])
              /\ \E a \in L.rows : a < i
              /\ \E b \in L.rows : b > i

\* C5: no row of a returned table comes from the first stop-marker line or
\* from a line after it.
C5_StopMarkerTruncates ==
    Returned =>
        LET ls == BlockLines
            L == BlockLayout
        IN L.stops # {} =>
               /\ Len(outcome.rows) <= L.stop - L.first
               /\ \A k \in 1..Len(outcome.rows) :
                      /\ ~StopLine(outcome.rows[k])
                      /\ \E i \in L.first..(L.stop - 1) :
                             outcome.rows[k] = Trimmed(ls[i])

C5_Witness ==
    /\ Returned
    /\ LET ls == BlockLines
           L == BlockLayout
       IN /\ L.stops # {}
          /\ \E i \in (L.stop + 1)..Len(ls) :
                 /\ ~BlankLine(ls[i]) /\ ~SeparatorLine(ls[i])
                 /\ ~StopLine(ls[i])
                 /\ \A k \in 1..Len(outcome.rows) : outcome.rows[k] # Trimmed(ls[i])

\* C6 as stated: the units of a returned table are the line after the header
\* line character for character, or empty when there is none.
C6_UnitsVerbatim ==
    Returned =>
        LET ls == BlockLines
        IN outcome.units = IF header_idx + 2 <= Len(ls) THEN ls[header_idx + 2] ELSE <<>>

\* C6 amended: the units of a returned table are the line after the header
\* line without its leading and trailing whitespace, or empty when there is none.
C6_UnitsTrimmed ==
    Returned =>
        LET ls == BlockLines
        IN outcome.units =
               IF header_idx + 2 <= Len(ls) THEN Trimmed(ls[header_idx + 2]) ELSE <<>>

C6_Witness ==
    /\ Returned
    /\ LET ls == BlockLines
       IN header_idx + 2 <= Len(ls) /\ ls[header_idx + 2] = <<"SP", "X", "SP">>
    /\ outcome.units = <<"X">>

\* C7: once a block was found, the call ends in the 'no data rows' error
\* exactly when no line survives truncation and filtering, and a returned
\* table has at least one row.
C7_NoDataRowsIffEmpty ==
    (pc = "done" /\ match # None) =>
        /\ (outcome.kind = "NoDataRows") <=> (BlockLayout.rows = {})
        /\ outcome.kind = "table" => Len(outcome.rows) >= 1

\* C8: a failed network call makes the probe answer (False, None), and a call
\* issues one request, never a second.
C8_SingleRequest ==
    /\ requests <= 1
    /\ pc # "start" => requests = 1
    /\ (pc # "start" /\ ~net_ok) => (exists = FALSE /\ response = None)

C8_Witness ==
    pc = "done" /\ ~net_ok /\ requests = 1 /\ response = None /\ ~exists

\* C9 as stated: a transport failure does not surface as the error that an
\* archive-reported absence surfaces as.
C9_TransportDistinct ==
    (pc = "done" /\ ~net_ok) => outcome.kind # "SoundingNotAvailable"

\* C9 amended: a transport failure and an archive-reported absence surface
\* from get_wyoming_sounding as the same 'not available' error; they differ
\* only in what sounding_exists returned, no response against a response.
C9_SameError ==
    /\ (pc = "done" /\ (~net_ok \/ ArchiveReportsAbsence(body))) =>
           outcome = Error("SoundingNotAvailable")
    /\ pc # "start" => ((response = None) <=> ~net_ok)

C9_Witness ==
    pc = "done" /\ ~net_ok /\ outcome = Error("SoundingNotAvailable")
    /\ ~ArchiveReportsAbsence(body)

FirstOpen == MinOf(OpensAt(body))

FirstTagEnd == MinOf({j \in (FirstOpen + 1)..Len(body) : body[j] = "GT"})

ClosesAfter(j) ==
    {k \in (j + 1)..(Len(body) - 1) :
        (body[k] = "CLOSE" \/ body[k] = "CLOSEU") /\ body[k + 1] = "GT"}

\* C10: the extracted block is the text between the first opening tag and the
\* first closing tag after it, and every row, the units and the column names
\* of a returned table come from the lines of that text.
C10_FirstBlockOnly ==
    (pc \in {"matched", "done"} /\ match # None) =>
        LET c == MinOf(ClosesAfter(FirstTagEnd))
            first == SplitLines(SubSeq(body, FirstTagEnd + 1, c - 1))
        IN /\ match = SubSeq(body, FirstTagEnd + 1, c - 1)
           /\ outcome.kind = "table" =>
                  /\ \A r \in 1..Len(outcome.rows) :
                         \E i \in 1..Len(first) : outcome.rows[r] = Trimmed(first[i])
                  /\ \E i \in 0..Len(first) :
                         outcome.units = IF i = 0 THEN <<>> ELSE Trimmed(first[i])

C10_Witness ==
    /\ Returned
    /\ Cardinality(ClosesAfter(FirstTagEnd)) >= 2
    /\ Cardinality(OpensAt(body)) >= 2

Next == CallSoundingExists \/ RaiseNotAvailable \/ SearchPre \/ ParseLines

Spec == Init /\ [][Next]_vars

SpecParse == InitParse /\ [][Next]_vars

=============================================================================
